---- MODULE Spec2Model ----
(***************************************************************************)
(* UPLID: prefixed, base62-encoded, time-ordered identifiers.              *)
(* Model of src/src/uplid/uplid.py.                                        *)
(*                                                                         *)
(* A Python str is a sequence of characters; a character is a one-symbol   *)
(* string, and the characters that have no printable ASCII form carry a    *)
(* symbolic name ("LF", "NUL", "U+00E9").                                  *)
(* The UUID is UuidBits wide instead of 128: the width of the encoding is  *)
(* derived from it exactly as 22 is derived from 128.                      *)
(***************************************************************************)
EXTENDS Integers, Sequences, FiniteSets, TLC

VARIABLES ids, result, clock, closures, threads, uuid_module

vars == <<ids, result, clock, closures, threads, uuid_module>>

(***************************************************************************)
(* Bounds                                                                  *)
(***************************************************************************)
\* width of the millisecond timestamp field of the UUID (48 in the program)
TsBits == 2
\* width of the random field of the UUID (74 in the program)
RandBits == 2
\* number of identifiers alive at the same time
MaxIds == 2
\* longest tail / free-form string the exhaustive parser inputs are built from
MaxFuzzLen == 3
\* longest candidate prefix enumerated exhaustively
MaxPrefixFuzzLen == 3
\* number of threads that generate concurrently
MaxThreads == 2
\* number of factory / parse / validator closures alive at the same time
MaxClosures == 2

(***************************************************************************)
(* Characters and strings                                                  *)
(***************************************************************************)
LF == "LF"
NUL == "NUL"
EACUTE == "U+00E9"

BASE62_ALPHABET ==
    << "0","1","2","3","4","5","6","7","8","9",
       "A","B","C","D","E","F","G","H","I","J","K","L","M",
       "N","O","P","Q","R","S","T","U","V","W","X","Y","Z",
       "a","b","c","d","e","f","g","h","i","j","k","l","m",
       "n","o","p","q","r","s","t","u","v","w","x","y","z" >>

Base == Len(BASE62_ALPHABET)

\* dict {c: i for i, c in enumerate(_BASE62_ALPHABET)}: a lookup of a key that
\* is absent raises KeyError, modelled by the domain of the function.
BASE62_DECODE_MAP ==
    [c \in {BASE62_ALPHABET[i] : i \in 1..Base} |->
        (CHOOSE i \in 1..Base : BASE62_ALPHABET[i] = c) - 1]

RECURSIVE Pow(_, _)
Pow(b, e) == IF e = 0 THEN 1 ELSE b * Pow(b, e - 1)

\* timestamp, 4-bit version, 2-bit variant, random bits (UUIDv7, RFC 9562)
UuidBits == TsBits + 4 + 2 + RandBits
UuidLimit == Pow(2, UuidBits)
AllUids == 0..(UuidLimit - 1)

\* ceiling(UuidBits / log2(62)): the least width that holds every UUID
BASE62_UUID_LENGTH ==
    CHOOSE w \in 1..5 : Pow(Base, w) >= UuidLimit /\ Pow(Base, w - 1) < UuidLimit

UUIDV7_TIMESTAMP_SHIFT == UuidBits - TsBits

PREFIX_MAX_LENGTH == 64

\* c * n
Rep(c, n) == [i \in 1..n |-> c] \o <<>>

\* str.zfill(width): left-pad with "0" up to width, never truncate
zfill(s, width) == IF Len(s) >= width THEN s ELSE Rep("0", width - Len(s)) \o s

RECURSIVE Reversed(_)
Reversed(s) == IF s = <<>> THEN <<>> ELSE Reversed(Tail(s)) \o <<Head(s)>>

(***************************************************************************)
(* Base62 codec                                                            *)
(***************************************************************************)
\* the while loop of _int_to_base62: remainders, least significant first
RECURSIVE DivmodLoop(_, _)
DivmodLoop(num, acc) ==
    IF num > 0
    THEN DivmodLoop(num \div 62, Append(acc, BASE62_ALPHABET[(num % 62) + 1]))
    ELSE acc

int_to_base62_nopad(num) ==
    IF num = 0
    THEN Rep("0", BASE62_UUID_LENGTH)
    ELSE Reversed(DivmodLoop(num, <<>>))

int_to_base62(num) ==
    IF num = 0
    THEN Rep("0", BASE62_UUID_LENGTH)
    ELSE zfill(Reversed(DivmodLoop(num, <<>>)), BASE62_UUID_LENGTH)

\* the for loop of _base62_to_int; KeyError at the first absent character
RECURSIVE DecodeLoop(_, _)
DecodeLoop(s, acc) ==
    IF s = <<>> THEN [exc |-> "none", val |-> acc]
    ELSE IF Head(s) \notin DOMAIN BASE62_DECODE_MAP
         THEN [exc |-> "KeyError", val |-> 0]
         ELSE DecodeLoop(Tail(s), acc * 62 + BASE62_DECODE_MAP[Head(s)])

base62_to_int(s) ==
    IF Len(s) > BASE62_UUID_LENGTH
    THEN [exc |-> "ValueError", val |-> 0]
    ELSE DecodeLoop(s, 0)

\* uuid.UUID(int=n): ValueError unless 0 <= n < 2^bits
UUID(n) ==
    IF n < 0 \/ n >= UuidLimit
    THEN [exc |-> "ValueError", val |-> 0]
    ELSE [exc |-> "none", val |-> n]

(***************************************************************************)
(* Prefix validator                                                        *)
(***************************************************************************)
Lower == {BASE62_ALPHABET[i] : i \in 37..62}

\* [a-z]*(_[a-z]+)* from position i; afterUnderscore: a letter is required next.
\* Returns the set of positions (number of characters consumed) where the
\* group can stop.
RECURSIVE BodyEnds(_, _, _)
BodyEnds(s, i, afterUnderscore) ==
    LET here == IF afterUnderscore THEN {} ELSE {i - 1}
    IN  IF i > Len(s) THEN here
        ELSE IF s[i] \in Lower THEN here \cup BodyEnds(s, i + 1, FALSE)
        ELSE IF s[i] = "_" /\ ~afterUnderscore THEN here \cup BodyEnds(s, i + 1, TRUE)
        ELSE here

\* "$" without re.MULTILINE: at the end, or just before a newline that ends
\* the string
DollarAt(s, k) == k = Len(s) \/ (k = Len(s) - 1 /\ s[Len(s)] = LF)

\* _PREFIX_PATTERN.match(prefix) is not None
PREFIX_PATTERN_match(s) ==
    /\ Len(s) >= 1
    /\ s[1] \in Lower
    /\ \E k \in BodyEnds(s, 2, FALSE) : DollarAt(s, k)

MsgAtMost == "Prefix must be at most"
MsgSnakeCase == "Prefix must be snake_case"
MsgFormat == "UPLID must be in format"
MsgExpected == "Expected prefix"
MsgLength == "UID must be"
MsgBase62 == "Invalid base62 UID"

NoError == [exc |-> "none", msg |-> ""]
UPLIDError(m) == [exc |-> "UPLIDError", msg |-> m]

validate_prefix_no_length_check(prefix) ==
    IF ~PREFIX_PATTERN_match(prefix) THEN UPLIDError(MsgSnakeCase)
    ELSE NoError

validate_prefix(prefix) ==
    IF Len(prefix) > PREFIX_MAX_LENGTH THEN UPLIDError(MsgAtMost)
    ELSE IF ~PREFIX_PATTERN_match(prefix) THEN UPLIDError(MsgSnakeCase)
    ELSE NoError

(***************************************************************************)
(* The identifier: class UPLID                                             *)
(***************************************************************************)
\* _base62_uid is None | str: the empty tuple is None, <<s>> is the string s
None == <<>>
Some(s) == <<s>>

NoObj == [prefix |-> <<>>, uid |-> -1, base62_uid |-> None]

Raised(err) == [exc |-> err.exc, msg |-> err.msg, obj |-> NoObj]
Returned(o) == [exc |-> "none", msg |-> "", obj |-> o]

\* UPLID.__init__(prefix, uid)
UPLID(prefix, uid) ==
    IF validate_prefix(prefix).exc # "none"
    THEN Raised(validate_prefix(prefix))
    ELSE Returned([prefix |-> prefix, uid |-> uid, base62_uid |-> None])

uuid7_timestamp_low(ms, r) ==
    r * Pow(2, TsBits + 6) + 7 * Pow(2, TsBits + 2) + 2 * Pow(2, TsBits)
      + (ms % Pow(2, TsBits))

\* the UUIDv7 with the timestamp ms and the bits r after the variant:
\* timestamp | version 7 | variant 0b10 | r
uuid7(ms, r) ==
    (ms % Pow(2, TsBits)) * Pow(2, UUIDV7_TIMESTAMP_SHIFT)
      + 7 * Pow(2, 2 + RandBits)
      + 2 * Pow(2, RandBits)
      + r

generate_without_random(prefix, ms, r) ==
    IF validate_prefix(prefix).exc # "none"
    THEN Raised(validate_prefix(prefix))
    ELSE Returned([prefix |-> prefix, uid |-> uuid7(ms, 0), base62_uid |-> None])

\* UPLID.generate(prefix)
generate(prefix, ms, r) ==
    IF validate_prefix(prefix).exc # "none"
    THEN Raised(validate_prefix(prefix))
    ELSE Returned([prefix |-> prefix, uid |-> uuid7(ms, r), base62_uid |-> None])

\* the random bits of a UUIDv7 are a counter (the high CounterBits bits) and
\* a random tail
CounterBits == (RandBits + 1) \div 2

\* uuid7() that draws a new counter at every call
uuid7_counter_reseeding(last, now_ms, seed, tail) ==
    [uid |-> uuid7(now_ms, seed * Pow(2, RandBits - CounterBits) + tail),
     module |-> [last_timestamp_v7 |-> now_ms, last_counter_v7 |-> seed]]

\* uuid7() of the standard library, with the globals last of the uuid module,
\* when the clock reads now_ms; seed (a counter with its high bit 0) and tail
\* are the random draws. A new millisecond takes a new counter; within the
\* same millisecond, or when the clock is behind the last timestamp (which is
\* then advanced by one), the counter is incremented, and when it overflows
\* the timestamp is advanced by one and a new counter is taken. Returns the
\* value and the globals afterwards.
uuid7_counter(last, now_ms, seed, tail) ==
    LET fresh == last.last_timestamp_v7 = -1 \/ now_ms > last.last_timestamp_v7
        behind == ~fresh /\ now_ms < last.last_timestamp_v7
        overflow == ~fresh /\ last.last_counter_v7 + 1 > Pow(2, CounterBits) - 1
        timestamp_ms == (IF behind THEN last.last_timestamp_v7 + 1 ELSE now_ms)
                          + (IF overflow THEN 1 ELSE 0)
        counter == IF fresh \/ overflow THEN seed ELSE last.last_counter_v7 + 1
    IN  [uid |-> uuid7(timestamp_ms, counter * Pow(2, RandBits - CounterBits) + tail),
         module |-> [last_timestamp_v7 |-> timestamp_ms, last_counter_v7 |-> counter]]

\* property base62_uid: the value returned and the object afterwards
base62_uid(x) ==
    IF x.base62_uid = None
    THEN [val |-> int_to_base62(x.uid),
          obj |-> [x EXCEPT !.base62_uid = Some(int_to_base62(x.uid))]]
    ELSE [val |-> x.base62_uid[1], obj |-> x]

str_without_separator(x) ==
    [val |-> x.prefix \o base62_uid(x).val, obj |-> base62_uid(x).obj]

\* UPLID.__str__
str(x) ==
    [val |-> x.prefix \o <<"_">> \o base62_uid(x).val, obj |-> base62_uid(x).obj]

\* equality over all three slots of the objects
eq_all_slots(a, b) ==
    a.prefix = b.prefix /\ a.uid = b.uid /\ a.base62_uid = b.base62_uid

\* UPLID.__eq__ between two identifiers
eq(a, b) == a.prefix = b.prefix /\ a.uid = b.uid

\* a membership test that is always satisfied
contains_anything(string) == TRUE

\* "_" in string
contains_underscore(string) == \E i \in 1..Len(string) : string[i] = "_"

\* string.find("_"), as a 1-based position; 0 when there is none (-1 in Python)
find(string) ==
    IF \A i \in 1..Len(string) : string[i] # "_" THEN 0
    ELSE CHOOSE i \in 1..Len(string) :
            string[i] = "_" /\ \A j \in 1..(i - 1) : string[j] # "_"

\* string.rfind("_"), as a 1-based position; 0 when there is none (-1 in Python)
rfind(string) ==
    IF \A i \in 1..Len(string) : string[i] # "_" THEN 0
    ELSE CHOOSE i \in 1..Len(string) :
            string[i] = "_" /\ \A j \in (i + 1)..Len(string) : string[j] # "_"

\* not parsed_prefix.startswith(prefix)
not_startswith(parsed_prefix, prefix) ==
    ~(/\ Len(prefix) <= Len(parsed_prefix)
      /\ SubSeq(parsed_prefix, 1, Len(prefix)) = prefix)

\* parsed_prefix != prefix
prefix_differs(parsed_prefix, prefix) == parsed_prefix # prefix

\* len(encoded_uid) > _BASE62_UUID_LENGTH
too_long(encoded_uid) == Len(encoded_uid) > BASE62_UUID_LENGTH

\* len(encoded_uid) != _BASE62_UUID_LENGTH
wrong_length(encoded_uid) == Len(encoded_uid) # BASE62_UUID_LENGTH

\* the exception classes of the except clause around the decoding
OnlyValueError == {"ValueError"}

ExceptClause == {"KeyError", "ValueError"}

\* uid_int = _base62_to_int(encoded_uid) alone
decode_uid_unchecked(encoded_uid) == base62_to_int(encoded_uid)

\* uid_int = _base62_to_int(encoded_uid); uid = UUID(int=uid_int)
decode_uid(encoded_uid) ==
    IF base62_to_int(encoded_uid).exc # "none"
    THEN base62_to_int(encoded_uid)
    ELSE UUID(base62_to_int(encoded_uid).val)

from_string_without_cache(string, prefix) ==
    IF ~contains_underscore(string) THEN Raised(UPLIDError(MsgFormat))
    ELSE
    LET last_underscore == rfind(string)
        parsed_prefix == SubSeq(string, 1, last_underscore - 1)
        encoded_uid == SubSeq(string, last_underscore + 1, Len(string))
        decoded == decode_uid(encoded_uid)
    IN  IF validate_prefix(parsed_prefix).exc # "none"
        THEN Raised(validate_prefix(parsed_prefix))
        ELSE IF prefix_differs(parsed_prefix, prefix)
        THEN Raised(UPLIDError(MsgExpected))
        ELSE IF wrong_length(encoded_uid)
        THEN Raised(UPLIDError(MsgLength))
        ELSE IF decoded.exc # "none"
        THEN Raised(UPLIDError(MsgBase62))
        ELSE Returned([prefix |-> prefix, uid |-> decoded.val, base62_uid |-> None])

\* UPLID.from_string(string, prefix)
from_string(string, prefix) ==
    IF ~contains_underscore(string) THEN Raised(UPLIDError(MsgFormat))
    ELSE
    LET last_underscore == rfind(string)
        parsed_prefix == SubSeq(string, 1, last_underscore - 1)
        encoded_uid == SubSeq(string, last_underscore + 1, Len(string))
        decoded == decode_uid(encoded_uid)
    IN  IF validate_prefix(parsed_prefix).exc # "none"
        THEN Raised(validate_prefix(parsed_prefix))
        ELSE IF prefix_differs(parsed_prefix, prefix)
        THEN Raised(UPLIDError(MsgExpected))
        ELSE IF wrong_length(encoded_uid)
        THEN Raised(UPLIDError(MsgLength))
        ELSE IF decoded.exc \in ExceptClause
        THEN Raised(UPLIDError(MsgBase62))
        ELSE IF decoded.exc # "none"
        THEN Raised([exc |-> decoded.exc, msg |-> ""])
        ELSE Returned([prefix |-> prefix, uid |-> decoded.val,
                       base62_uid |-> Some(encoded_uid)])

\* pickle.loads(pickle.dumps(x)): __reduce__ gives (type(x), (prefix, uid)),
\* rebuilt through __init__
unpickle(x) == UPLID(x.prefix, x.uid)

(***************************************************************************)
(* Equality, hashing, ordering and the derived accessors                   *)
(***************************************************************************)
\* ord(c): the code point of a character
ord(c) ==
    IF \E i \in 1..Base : BASE62_ALPHABET[i] = c
    THEN LET i == CHOOSE j \in 1..Base : BASE62_ALPHABET[j] = c
         IN  IF i <= 10 THEN 47 + i ELSE IF i <= 36 THEN 54 + i ELSE 60 + i
    ELSE IF c = "_" THEN 95
    ELSE IF c = LF THEN 10
    ELSE IF c = NUL THEN 0
    ELSE IF c = " " THEN 32
    ELSE IF c = "-" THEN 45
    ELSE 233

\* comparison of two str by code points: -1, 0 or 1
RECURSIVE str_cmp(_, _)
str_cmp(a, b) ==
    IF a = <<>> /\ b = <<>> THEN 0
    ELSE IF a = <<>> THEN -1
    ELSE IF b = <<>> THEN 1
    ELSE IF ord(Head(a)) < ord(Head(b)) THEN -1
    ELSE IF ord(Head(a)) > ord(Head(b)) THEN 1
    ELSE str_cmp(Tail(a), Tail(b))

\* comparison of the tuples (uid, prefix): the value first
tuple_cmp_uid_first(a, b) ==
    IF a.uid # b.uid THEN (IF a.uid < b.uid THEN -1 ELSE 1)
    ELSE str_cmp(a.prefix, b.prefix)

\* comparison of the tuples (a._prefix, a._uid) and (b._prefix, b._uid): the
\* first pair of elements that differ decides
tuple_cmp(a, b) ==
    IF a.prefix # b.prefix THEN str_cmp(a.prefix, b.prefix)
    ELSE IF a.uid # b.uid THEN (IF a.uid < b.uid THEN -1 ELSE 1)
    ELSE 0

\* UPLID.__lt__, __le__, __gt__, __ge__ between two identifiers
lt(a, b) == tuple_cmp(a, b) < 0
le(a, b) == tuple_cmp(a, b) <= 0
gt(a, b) == tuple_cmp(a, b) > 0
ge_strict(a, b) == tuple_cmp(a, b) > 0
ge(a, b) == tuple_cmp(a, b) >= 0

\* sorted(s) (key "") and sorted(s, key=str) (key "str"): a stable sort that
\* compares with __lt__, of the elements or of their strings; an element goes
\* after every smaller one and after every earlier one that is not greater
sorted(s, key) ==
    LET Less(a, b) == IF key = "str" THEN str_cmp(str(a).val, str(b).val) < 0
                      ELSE lt(a, b)
        rank(i) == Cardinality({j \in 1..Len(s) :
                                   \/ Less(s[j], s[i])
                                   \/ ~Less(s[i], s[j]) /\ j < i}) + 1
    IN  [k \in 1..Len(s) |-> s[CHOOSE i \in 1..Len(s) : rank(i) = k]]

\* hash of a str: deterministic, collisions possible
RECURSIVE hash_str(_)
hash_str(s) ==
    IF s = <<>> THEN 0
    ELSE (31 * hash_str(SubSeq(s, 1, Len(s) - 1)) + ord(s[Len(s)])) % 1009

\* a hash over all three slots of the object
hash_all_slots(x) ==
    (31 * ((31 * hash_str(x.prefix) + x.uid) % 1009) + Len(x.base62_uid)) % 1009

\* UPLID.__hash__: hash((self._prefix, self._uid))
hash(x) == (31 * hash_str(x.prefix) + x.uid) % 1009

\* the set built from a sequence of identifiers: an element is added unless
\* one with the same hash that is equal to it is already there (the
\* representatives are the positions kept)
RECURSIVE set_of(_, _)
set_of(xs, n) ==
    IF n = 0 THEN {}
    ELSE LET before == set_of(xs, n - 1)
         IN  IF \E k \in before : hash(xs[k]) = hash(xs[n]) /\ eq(xs[k], xs[n])
             THEN before
             ELSE before \cup {n}

MS_PER_SECOND == 1000

\* a number of seconds as the quotient num / den
Seconds(num, den) == [num |-> num, den |-> den]

timestamp_masking_timestamp(x) ==
    Seconds((x.uid \div Pow(2, UUIDV7_TIMESTAMP_SHIFT)) % Pow(2, TsBits - 1), MS_PER_SECOND)

\* UPLID.timestamp: ms / _MS_PER_SECOND for ms = uid.int >> _UUIDV7_TIMESTAMP_SHIFT
timestamp(x) == Seconds(x.uid \div Pow(2, UUIDV7_TIMESTAMP_SHIFT), MS_PER_SECOND)

\* the last millisecond datetime.fromtimestamp can represent (the end of year
\* 9999, 253402300799999 ms); the timestamp field reaches beyond it (2^48 - 1
\* ms is in year 10889), and so does the largest value of the model's field
DATETIME_MAX_MS == Pow(2, TsBits) - 2

\* UPLID.datetime: the instant as milliseconds since the epoch, or the
\* ValueError of datetime.fromtimestamp
datetime(x) ==
    LET ms == x.uid \div Pow(2, UUIDV7_TIMESTAMP_SHIFT)
    IN  IF ms > DATETIME_MAX_MS
        THEN [exc |-> "ValueError", msg |-> "year is out of range", val |-> -1]
        ELSE [exc |-> "none", msg |-> "", val |-> ms]

repr_clearing_cache(x) ==
    [val |-> <<"UPLID(">> \o x.prefix \o <<", ">> \o base62_uid(x).val \o <<")">>,
     obj |-> [x EXCEPT !.base62_uid = None]]

\* UPLID.__repr__: "UPLID('<prefix>', '<base62>')", filling the cache
repr(x) ==
    [val |-> <<"UPLID(">> \o x.prefix \o <<", ">> \o base62_uid(x).val \o <<")">>,
     obj |-> base62_uid(x).obj]

(***************************************************************************)
(* Type-level binding, the pydantic validator and the column adapter       *)
(***************************************************************************)
\* a Python value handed to a validator: a str, an identifier, None or a
\* value of another type
StrVal(s) == [type |-> "str", s |-> s, obj |-> NoObj]
IdVal(x) == [type |-> "UPLID", s |-> <<>>, obj |-> x]
NoneVal == [type |-> "NoneType", s |-> <<>>, obj |-> NoObj]
IntVal == [type |-> "int", s |-> <<>>, obj |-> NoObj]

\* UPLID[Literal[p1, ...]]: get_args gives the Literal, whose get_args are the
\* literal strings; the bare class UPLID has no args
UPLIDOf(literals) == [args |-> <<[args |-> literals]>>]
BareUPLID == [args |-> <<>>]

MsgNotParameterized == "UPLID type must be parameterized"
MsgNoLiteral == "Could not extract prefix"
MsgExpectedType == "Expected UPLID or str"

\* _get_prefix(uplid_type)
get_prefix(uplid_type) ==
    IF uplid_type.args = <<>>
    THEN [exc |-> "UPLIDError", msg |-> MsgNotParameterized, val |-> <<>>]
    ELSE IF uplid_type.args[1].args = <<>>
    THEN [exc |-> "UPLIDError", msg |-> MsgNoLiteral, val |-> <<>>]
    ELSE [exc |-> "none", msg |-> "", val |-> uplid_type.args[1].args[1]]

\* the closure _factory of factory(uplid_type), called with random bits r
closure_factory(prefix, ms, r) == generate(prefix, ms, r)

\* a parser that takes the expected prefix from the string itself
closure_parse_any(v, prefix) == from_string(v, SubSeq(v, 1, rfind(v) - 1))

\* the closure _parse of parse(uplid_type)
closure_parse(v, prefix) == from_string(v, prefix)

\* a validator that returns every identifier it is given
pydantic_validate_any_uplid(prefix_str, v) ==
    IF v.type = "str"
    THEN [r |-> from_string(v.s, prefix_str), same |-> FALSE]
    ELSE IF v.type = "UPLID"
    THEN [r |-> Returned(v.obj), same |-> TRUE]
    ELSE [r |-> Raised(UPLIDError(MsgExpectedType)), same |-> FALSE]

\* the function validate of __get_pydantic_core_schema__; same: the value
\* returned is the very object that was passed
pydantic_validate(prefix_str, v) ==
    IF v.type = "str"
    THEN [r |-> from_string(v.s, prefix_str), same |-> FALSE]
    ELSE IF v.type = "UPLID"
    THEN IF v.obj.prefix # prefix_str
         THEN [r |-> Raised(UPLIDError(MsgExpected)), same |-> FALSE]
         ELSE [r |-> Returned(v.obj), same |-> TRUE]
    ELSE [r |-> Raised(UPLIDError(MsgExpectedType)), same |-> FALSE]

\* process_bind_param that binds a str as it is
process_bind_param_unvalidated(prefix, v) ==
    IF v.type = "NoneType"
    THEN [exc |-> "none", msg |-> "", out |-> NoneVal, obj |-> v.obj]
    ELSE IF v.type = "UPLID"
    THEN IF v.obj.prefix # prefix
         THEN [exc |-> "ValueError", msg |-> MsgExpected, out |-> NoneVal, obj |-> v.obj]
         ELSE [exc |-> "none", msg |-> "", out |-> StrVal(str(v.obj).val),
               obj |-> str(v.obj).obj]
    ELSE [exc |-> "none", msg |-> "", out |-> v, obj |-> v.obj]

\* UPLIDColumn(prefix).process_bind_param(value): the value bound (a str or
\* None) and the identifier afterwards (str fills its cache)
process_bind_param(prefix, v) ==
    IF v.type = "NoneType"
    THEN [exc |-> "none", msg |-> "", out |-> NoneVal, obj |-> v.obj]
    ELSE IF v.type = "UPLID"
    THEN IF v.obj.prefix # prefix
         THEN [exc |-> "ValueError", msg |-> MsgExpected, out |-> NoneVal, obj |-> v.obj]
         ELSE [exc |-> "none", msg |-> "", out |-> StrVal(str(v.obj).val),
               obj |-> str(v.obj).obj]
    ELSE IF v.type = "str" /\ from_string(v.s, prefix).exc # "none"
    THEN [exc |-> from_string(v.s, prefix).exc, msg |-> from_string(v.s, prefix).msg,
          out |-> NoneVal, obj |-> v.obj]
    ELSE [exc |-> "none", msg |-> "", out |-> v, obj |-> v.obj]

\* UPLIDColumn(prefix).process_result_value(value) for a str
process_result_value(prefix, s) == from_string(s, prefix)

(***************************************************************************)
(* Inputs                                                                  *)
(***************************************************************************)
RECURSIVE StringsOver(_, _)
\* every string over chars of length at most n
StringsOver(chars, n) ==
    IF n = 0 THEN {<<>>}
    ELSE LET shorter == StringsOver(chars, n - 1)
         IN  shorter \cup {Append(s, c) : s \in shorter, c \in chars}

ValidPrefixInputs == { <<"a">>, <<"a", "_", "b">>, <<"a", LF>> }

InvalidPrefixInputs == { <<>>, <<"A">>, Rep("a", PREFIX_MAX_LENGTH + 1) }

PrefixInputs == ValidPrefixInputs \cup InvalidPrefixInputs

\* values handed to the constructor where the whole range is not enumerated
UidInputs == {0, 61, 62, UuidLimit - 1}

TailChars == {"0", "8", "z", "_", NUL, EACUTE}
Tails == StringsOver(TailChars, MaxFuzzLen)

FuzzPrefixParts ==
    ValidPrefixInputs \cup
    { <<>>, <<"A">>, Rep("a", PREFIX_MAX_LENGTH), Rep("a", PREFIX_MAX_LENGTH + 1) }

NoUnderscoreStrings ==
    StringsOver({"a", "0", LF, EACUTE}, MaxFuzzLen) \cup {Rep("a", 100)}

FuzzStrings ==
    {pp \o <<"_">> \o tl : pp \in FuzzPrefixParts, tl \in Tails} \cup NoUnderscoreStrings

ExpectedPrefixes ==
    ValidPrefixInputs \cup
    { <<>>, <<"b">>, <<"A">>, Rep("a", PREFIX_MAX_LENGTH), Rep("a", PREFIX_MAX_LENGTH + 1) }

PrefixChars == {"a", "z", "_", "0", "A", LF, " ", "-"}

PrefixFuzz ==
    StringsOver(PrefixChars, MaxPrefixFuzzLen)
    \cup {Rep("a", PREFIX_MAX_LENGTH - 1) \o <<c>> : c \in PrefixChars}
    \cup {Rep("a", PREFIX_MAX_LENGTH) \o <<c>> : c \in PrefixChars}
    \cup {<<c>> \o Rep("a", PREFIX_MAX_LENGTH) : c \in PrefixChars}
    \cup {Rep("a", PREFIX_MAX_LENGTH), Rep("a", 2 * PREFIX_MAX_LENGTH)}

(***************************************************************************)
(* State: the live identifiers, the last call with its outcome, the clock  *)
(***************************************************************************)
\* op: the operation; i: the identifier it was called on; s, p, n: its string,
\* prefix and integer arguments; exc, msg: the exception raised ("none");
\* ret: the identifier returned (index in ids, 0 for none); out, num: the
\* string or number returned
Res(op, i, s, p, n, exc, msg, ret, out, num) ==
    [op |-> op, i |-> i, s |-> s, p |-> p, n |-> n, exc |-> exc, msg |-> msg,
     ret |-> ret, out |-> out, num |-> num]

\* the globals of the uuid module before the first uuid7(): no last timestamp,
\* no last counter
NoUuid7Yet == [last_timestamp_v7 |-> -1, last_counter_v7 |-> -1]

\* the local variables of a thread inside UPLID.generate: at is "idle" (no
\* call), "validated" (before uuid7()), "drawn" (after uuid7()) or "done"
\* (returned; the locals of the last call are kept for inspection); inside
\* base62_uid, str: at is "checked" (the cache was found empty) or "cached"
\* (before the return), op is the call, ret the identifier and out the
\* string returned
Threads == 1..MaxThreads

IdleThread ==
    [at |-> "idle", prefix |-> <<>>, ms |-> -1, r |-> -1, uid |-> -1, ret |-> 0,
     op |-> "", out |-> <<>>]

Init ==
    /\ ids = <<>>
    /\ result = Res("start", 0, <<>>, <<>>, -1, "none", "", 0, <<>>, -1)
    /\ clock = 0
    /\ closures = <<>>
    /\ threads = [t \in Threads |-> IdleThread]
    /\ uuid_module = NoUuid7Yet

\* a call that builds an identifier: on success the new object becomes live
Build(op, s, p, n, r) ==
    /\ r.exc = "none" => Len(ids) < MaxIds
    /\ ids' = IF r.exc = "none" THEN Append(ids, r.obj) ELSE ids
    /\ result' = Res(op, 0, s, p, n, r.exc, r.msg,
                     IF r.exc = "none" THEN Len(ids) + 1 ELSE 0, <<>>, -1)

\* UPLID(p, UUID(int=v))
Construct(p, v) ==
    /\ Build("init", <<>>, p, v, UPLID(p, v))
    /\ UNCHANGED <<clock, closures, threads, uuid_module>>

\* UPLID.generate(p) with the random bits r
Generate(p, r) ==
    /\ Build("generate", <<>>, p, clock, generate(p, clock, r))
    /\ UNCHANGED <<clock, closures, threads, uuid_module>>

\* UPLID.from_string(s, p)
FromString(s, p) ==
    /\ Build("from_string", s, p, -1, from_string(s, p))
    /\ UNCHANGED <<clock, closures, threads, uuid_module>>

\* pickle.loads(pickle.dumps(ids[i]))
Pickle(i) ==
    /\ i \in 1..Len(ids)
    /\ Len(ids) < MaxIds
    /\ ids' = Append(ids, unpickle(ids[i]).obj)
    /\ result' = Res("pickle", i, <<>>, <<>>, -1, unpickle(ids[i]).exc,
                     unpickle(ids[i]).msg, Len(ids) + 1, <<>>, -1)
    /\ UNCHANGED <<clock, closures, threads, uuid_module>>

\* copy.copy(ids[i]), copy.deepcopy(ids[i]): return self
Copy(i) ==
    /\ i \in 1..Len(ids)
    /\ result' = Res("copy", i, <<>>, <<>>, -1, "none", "", i, <<>>, -1)
    /\ UNCHANGED <<ids, clock, closures, threads, uuid_module>>

\* ids[i].base62_uid
Base62Uid(i) ==
    /\ i \in 1..Len(ids)
    /\ ids' = [ids EXCEPT ![i] = base62_uid(ids[i]).obj]
    /\ result' = Res("base62_uid", i, <<>>, <<>>, -1, "none", "", 0,
                     base62_uid(ids[i]).val, -1)
    /\ UNCHANGED <<clock, closures, threads, uuid_module>>

\* str(ids[i])
Str(i) ==
    /\ i \in 1..Len(ids)
    /\ ids' = [ids EXCEPT ![i] = str(ids[i]).obj]
    /\ result' = Res("str", i, <<>>, <<>>, -1, "none", "", 0, str(ids[i]).val, -1)
    /\ UNCHANGED <<clock, closures, threads, uuid_module>>

\* the last reference to the newest identifier goes away
Del ==
    /\ Len(ids) > 0
    /\ ids' = SubSeq(ids, 1, Len(ids) - 1)
    /\ result' = Res("del", 0, <<>>, <<>>, -1, "none", "", 0, <<>>, -1)
    /\ UNCHANGED <<clock, closures, threads, uuid_module>>

\* a millisecond passes (the clock stays within the years a datetime has)
Tick ==
    /\ clock < DATETIME_MAX_MS
    /\ clock' = clock + 1
    /\ UNCHANGED <<ids, result, closures, threads, uuid_module>>

\* the canonical strings of the live identifiers
LiveStrings == {str(ids[i]).val : i \in 1..Len(ids)}

Next ==
    \/ \E p \in PrefixInputs, v \in UidInputs : Construct(p, v)
    \/ \E p \in PrefixInputs, r \in {0, Pow(2, RandBits) - 1} : Generate(p, r)
    \/ \E s \in LiveStrings, p \in PrefixInputs : FromString(s, p)
    \/ \E i \in 1..MaxIds : Pickle(i)
    \/ \E i \in 1..MaxIds : Copy(i)
    \/ \E i \in 1..MaxIds : Base62Uid(i)
    \/ \E i \in 1..MaxIds : Str(i)
    \/ Del
    \/ Tick

Spec == Init /\ [][Next]_vars

(***************************************************************************)
(* Every operation on a few identifiers                                    *)
(***************************************************************************)
Bool(b) == IF b THEN 1 ELSE 0

\* a call on ids[i] (and ids[j]) that returns the number num and leaves the
\* identifiers alone
Query(op, i, j, num) ==
    /\ i \in 1..Len(ids)
    /\ j \in 0..Len(ids)
    /\ result' = Res(op, i, <<>>, <<>>, j, "none", "", 0, <<>>, num)
    /\ UNCHANGED <<ids, clock, closures, threads, uuid_module>>

\* ids[i] == ids[j], and the four order comparisons
Eq(i, j) == j >= 1 /\ Query("eq", i, j, Bool(eq(ids[i], ids[j])))
Lt(i, j) == j >= 1 /\ Query("lt", i, j, Bool(lt(ids[i], ids[j])))
Le(i, j) == j >= 1 /\ Query("le", i, j, Bool(le(ids[i], ids[j])))
Gt(i, j) == j >= 1 /\ Query("gt", i, j, Bool(gt(ids[i], ids[j])))
Ge(i, j) == j >= 1 /\ Query("ge", i, j, Bool(ge(ids[i], ids[j])))

\* hash(ids[i])
Hash(i) == Query("hash", i, 0, hash(ids[i]))

\* len(set(ids))
SetLen ==
    /\ Len(ids) >= 1
    /\ Query("set", 1, 0, Cardinality(set_of(ids, Len(ids))))

\* ids[i].timestamp, ids[i].datetime
Timestamp(i) == Query("timestamp", i, 0, timestamp(ids[i]))
Datetime(i) ==
    /\ i \in 1..Len(ids)
    /\ result' = Res("datetime", i, <<>>, <<>>, 0, datetime(ids[i]).exc,
                     datetime(ids[i]).msg, 0, <<>>, datetime(ids[i]).val)
    /\ UNCHANGED <<ids, clock, closures, threads, uuid_module>>

\* repr(ids[i])
Repr(i) ==
    /\ i \in 1..Len(ids)
    /\ ids' = [ids EXCEPT ![i] = repr(ids[i]).obj]
    /\ result' = Res("repr", i, <<>>, <<>>, -1, "none", "", 0, repr(ids[i]).val, -1)
    /\ UNCHANGED <<clock, closures, threads, uuid_module>>

\* the pydantic validator of UPLID[Literal[p]] applied to the identifier ids[i]
ValidateId(p, i) ==
    /\ i \in 1..Len(ids)
    /\ LET v == pydantic_validate(p, IdVal(ids[i]))
       IN  result' = Res("validate", i, <<>>, p, -1, v.r.exc, v.r.msg,
                         IF v.same THEN i ELSE 0, <<>>, -1)
    /\ UNCHANGED <<ids, clock, closures, threads, uuid_module>>

\* the pydantic validator of UPLID[Literal[p]] applied to the str s
ValidateStr(p, s) ==
    /\ Build("validate", s, p, -1, pydantic_validate(p, StrVal(s)).r)
    /\ UNCHANGED <<clock, closures, threads, uuid_module>>

\* the pydantic validator of UPLID[Literal[p]] applied to an int
ValidateOther(p) ==
    /\ Build("validate", <<>>, p, 0, pydantic_validate(p, IntVal).r)
    /\ UNCHANGED <<clock, closures, threads, uuid_module>>

\* UPLIDColumn(p).process_bind_param(ids[i])
BindParam(p, i) ==
    /\ i \in 1..Len(ids)
    /\ LET b == process_bind_param(p, IdVal(ids[i]))
       IN  /\ ids' = [ids EXCEPT ![i] = b.obj]
           /\ result' = Res("process_bind_param", i, <<>>, p, -1, b.exc, b.msg, 0,
                            b.out.s, -1)
    /\ UNCHANGED <<clock, closures, threads, uuid_module>>

\* UPLIDColumn(p).process_result_value(s)
ResultValue(p, s) ==
    /\ Build("process_result_value", s, p, -1, process_result_value(p, s))
    /\ UNCHANGED <<clock, closures, threads, uuid_module>>

OpsPrefixes == { <<"a">>, <<"a", "_", "b">> }

NextOps ==
    \/ \E p \in OpsPrefixes \cup {<<"A">>}, v \in {0} : Construct(p, v)
    \/ \E r \in {0, 1} : Generate(<<"a">>, r)
    \/ \E s \in LiveStrings, p \in OpsPrefixes : FromString(s, p)
    \/ \E i \in 1..MaxIds : Pickle(i)
    \/ \E i \in 1..MaxIds : Copy(i)
    \/ \E i \in 1..MaxIds : Base62Uid(i)
    \/ \E i \in 1..MaxIds : Str(i)
    \/ \E i \in 1..MaxIds : Repr(i)
    \/ \E i, j \in 1..MaxIds : Eq(i, j)
    \/ \E i, j \in 1..MaxIds : Lt(i, j)
    \/ \E i, j \in 1..MaxIds : Le(i, j)
    \/ \E i, j \in 1..MaxIds : Gt(i, j)
    \/ \E i, j \in 1..MaxIds : Ge(i, j)
    \/ \E i \in 1..MaxIds : Hash(i)
    \/ SetLen
    \/ \E i \in 1..MaxIds : Timestamp(i)
    \/ \E i \in 1..MaxIds : Datetime(i)
    \/ \E p \in OpsPrefixes, i \in 1..MaxIds : ValidateId(p, i)
    \/ \E s \in LiveStrings \cup {<<"a">>, <<"n", "o", "t", "_", "v", "a", "l", "i", "d">>},
          p \in OpsPrefixes : ValidateStr(p, s)
    \/ \E p \in OpsPrefixes : ValidateOther(p)
    \/ \E p \in OpsPrefixes, i \in 1..MaxIds : BindParam(p, i)
    \/ \E s \in LiveStrings, p \in OpsPrefixes : ResultValue(p, s)
    \/ Del

SpecOps == Init /\ [][NextOps]_vars

(***************************************************************************)
(* Threads calling UPLID.generate without locks                            *)
(***************************************************************************)
GenPrefixes == { <<"a">>, <<"a", "_", "b">>, <<"A">> }

\* thread t enters UPLID.generate(p) and runs _validate_prefix(p)
GenValidate(t, p) ==
    /\ threads[t].at \in {"idle", "done"}
    /\ IF validate_prefix(p).exc # "none"
       THEN /\ threads' = [threads EXCEPT ![t] = IdleThread]
            /\ result' = Res("generate", t, <<>>, p, clock, validate_prefix(p).exc,
                             validate_prefix(p).msg, 0, <<>>, -1)
       ELSE /\ threads' = [threads EXCEPT ![t] = [IdleThread EXCEPT
                               !.at = "validated", !.prefix = p]]
            /\ UNCHANGED result
    /\ UNCHANGED <<ids, clock, closures, uuid_module>>

\* thread t fills the slots: uuid7() reads the clock and draws the random bits r
GenDraw(t, r) ==
    /\ threads[t].at = "validated"
    /\ threads' = [threads EXCEPT ![t] = [@ EXCEPT
                       !.at = "drawn", !.ms = clock, !.r = r,
                       !.uid = generate(threads[t].prefix, clock, r).obj.uid]]
    /\ UNCHANGED <<ids, result, clock, closures, uuid_module>>

\* thread t returns the instance
GenReturn(t) ==
    /\ threads[t].at = "drawn"
    /\ Len(ids) < MaxIds
    /\ ids' = Append(ids, [prefix |-> threads[t].prefix, uid |-> threads[t].uid,
                           base62_uid |-> None])
    /\ threads' = [threads EXCEPT ![t] = [@ EXCEPT !.at = "done", !.ret = Len(ids) + 1]]
    /\ result' = Res("generate", t, <<>>, threads[t].prefix, threads[t].ms, "none", "",
                     Len(ids) + 1, <<>>, -1)
    /\ UNCHANGED <<clock, closures, uuid_module>>

NextGen ==
    \/ \E t \in Threads, p \in GenPrefixes : GenValidate(t, p)
    \/ \E t \in Threads, r \in {0, Pow(2, RandBits) - 1} : GenDraw(t, r)
    \/ \E t \in Threads : GenReturn(t)
    \/ Tick

SpecGen == Init /\ [][NextGen]_vars

(***************************************************************************)
(* factory(T) and parse(T): closures over the prefix of a parameterized     *)
(* type                                                                    *)
(***************************************************************************)
\* the types handed to factory and parse: UPLID[Literal[p]], the bare class and
\* UPLID[X] for an X without literal arguments
BindLiterals == { <<"a">>, <<"a", "_", "b">>, <<"A">> }
BindTypes == {UPLIDOf(<<p>>) : p \in BindLiterals} \cup {BareUPLID, UPLIDOf(<<>>)}

BindStrings ==
    { <<"a", "_", "b", "_", "0", "8">>, <<"a", "_", "0", "8">>,
      <<"a", "_", "z", "z">>, <<"n", "o", "t", "_", "v", "a", "l", "i", "d">>, <<"a">> }

\* factory(T) or parse(T): _get_prefix(T) is bound in a new closure; the
\* closure keeps the type it was made from for reference (of)
MakeClosure(kind, T) ==
    /\ Len(closures) < MaxClosures
    /\ LET g == get_prefix(T)
       IN  /\ closures' = IF g.exc = "none"
                          THEN Append(closures, [kind |-> kind, prefix |-> g.val, of |-> T])
                          ELSE closures
           /\ result' = Res(kind, 0, <<>>, g.val, -1, g.exc, g.msg, 0, <<>>,
                            IF g.exc = "none" THEN Len(closures) + 1 ELSE 0)
    /\ UNCHANGED <<ids, clock, threads, uuid_module>>

MakeFactory == \E T \in BindTypes : MakeClosure("factory", T)
MakeParse == \E T \in BindTypes : MakeClosure("parse", T)

\* closures[c]() for a closure made by factory
CallFactory(c, r) ==
    /\ c \in 1..Len(closures)
    /\ closures[c].kind = "factory"
    /\ Build("_factory", <<>>, closures[c].prefix, c,
             closure_factory(closures[c].prefix, clock, r))
    /\ UNCHANGED <<clock, closures, threads, uuid_module>>

\* closures[c](s) for a closure made by parse
CallParse(c, s) ==
    /\ c \in 1..Len(closures)
    /\ closures[c].kind = "parse"
    /\ Build("_parse", s, closures[c].prefix, c, closure_parse(s, closures[c].prefix))
    /\ UNCHANGED <<clock, closures, threads, uuid_module>>

\* the closure made last is dropped
DelClosure ==
    /\ Len(closures) > 0
    /\ closures' = SubSeq(closures, 1, Len(closures) - 1)
    /\ result' = Res("del", 0, <<>>, <<>>, -1, "none", "", 0, <<>>, -1)
    /\ UNCHANGED <<ids, clock, threads, uuid_module>>

NextBind ==
    \/ MakeFactory
    \/ MakeParse
    \/ \E c \in 1..MaxClosures, r \in {0, Pow(2, RandBits) - 1} : CallFactory(c, r)
    \/ \E c \in 1..MaxClosures, s \in BindStrings \cup LiveStrings : CallParse(c, s)
    \/ DelClosure
    \/ Del

SpecBind == Init /\ [][NextBind]_vars

(***************************************************************************)
(* Specifications of single calls: the initial state holds the arguments   *)
(* of a pending call, the actions make the call and use what it returns.   *)
(***************************************************************************)
Call(op, s, p, n) == Res(op, 0, s, p, n, "none", "", 0, <<>>, -1)

InitCalls(calls) ==
    /\ ids = <<>>
    /\ result \in calls
    /\ clock = 0
    /\ closures = <<>>
    /\ threads = [t \in Threads |-> IdleThread]
    /\ uuid_module = NoUuid7Yet

(***************************************************************************)
(* The parser on arbitrary input                                           *)
(***************************************************************************)
ParseFuzz == result.op = "call_from_string" /\ FromString(result.s, result.p)

SpecParse ==
    /\ InitCalls({Call("call_from_string", s, p, -1) :
                     s \in FuzzStrings, p \in ExpectedPrefixes})
    /\ [][ParseFuzz]_vars

(***************************************************************************)
(* Format then parse, over every value                                     *)
(***************************************************************************)
ConstructAny == result.op = "call_init" /\ Construct(result.p, result.n)

StrFirst == result.op = "init" /\ Str(1)

ParseFormatted ==
    /\ Len(ids) = 1
    /\ result.op = "str"
    /\ \E p \in ExpectedPrefixes : FromString(result.out, p)

NextRoundTrip == ConstructAny \/ StrFirst \/ ParseFormatted

SpecRoundTrip ==
    /\ InitCalls({Call("call_init", <<>>, p, v) : p \in PrefixInputs, v \in AllUids})
    /\ [][NextRoundTrip]_vars

(***************************************************************************)
(* The accessors over every value                                          *)
(***************************************************************************)
GenerateAny == result.op = "call_generate" /\ Generate(result.p, result.n)

ParseFirst ==
    /\ Len(ids) = 1
    /\ result.op = "str"
    /\ FromString(result.out, ids[1].prefix)

NextTime ==
    \/ ConstructAny
    \/ Tick
    \/ GenerateAny
    \/ StrFirst
    \/ ParseFirst
    \/ \E i \in 1..MaxIds : Timestamp(i)
    \/ \E i \in 1..MaxIds : Datetime(i)

SpecTime ==
    /\ InitCalls({Call("call_init", <<>>, <<"a">>, v) : v \in AllUids}
                 \cup {Call("call_generate", <<>>, <<"a">>, r) :
                          r \in 0..(Pow(2, RandBits) - 1)})
    /\ [][NextTime]_vars

(***************************************************************************)
(* The column adapter: bind a value, then load what was bound              *)
(***************************************************************************)
\* UPLIDColumn(p).process_bind_param(v) for v None or a str; n: 0 for None,
\* 1 for a str; num: 1 when None is returned
BindOther(p, v) ==
    /\ result' = Res("process_bind_param", 0, v.s, p, Bool(v.type = "str"),
                     process_bind_param(p, v).exc, process_bind_param(p, v).msg, 0,
                     process_bind_param(p, v).out.s,
                     Bool(process_bind_param(p, v).out.type = "NoneType"))
    /\ UNCHANGED <<ids, clock, closures, threads, uuid_module>>

\* UPLIDColumn(p).process_result_value(s) for the string s the same column
\* bound last; n: the identifier that was bound (0 when a str was bound)
ResultBound ==
    /\ result.op = "process_bind_param"
    /\ result.exc = "none"
    /\ result.num # 1
    /\ Build("process_result_value", result.out, result.p, result.i,
             process_result_value(result.p, result.out))
    /\ UNCHANGED <<clock, closures, threads, uuid_module>>

ColumnPrefixes == OpsPrefixes \cup { <<"A">>, <<"a", LF>> }

NextColumn ==
    \/ \E p \in ColumnPrefixes : Construct(p, UuidLimit - 1)
    \/ \E p \in ColumnPrefixes, i \in 1..MaxIds : BindParam(p, i)
    \/ \E p \in ColumnPrefixes,
          s \in LiveStrings \cup {<<>>, <<"a">>, <<"a", "_", "0">>, <<"a", "_", "0", "-">>,
                                 <<"_", "0", "0">>, <<"A", "_", "0", "0">>} :
          BindOther(p, StrVal(s))
    \/ \E p \in ColumnPrefixes : BindOther(p, NoneVal)
    \/ ResultBound

SpecColumn == Init /\ [][NextColumn]_vars

(***************************************************************************)
(* Comparisons and sorting of a list of identifiers: the list is any list  *)
(* of SortLen identifiers, the comparisons are between its first two.      *)
(***************************************************************************)
SortLen == MaxIds + 1

InitCompare ==
    /\ result = Call("call_sorted", <<>>, <<>>, -1)
    /\ clock = 0
    /\ closures = <<>>
    /\ threads = [t \in Threads |-> IdleThread]
    /\ uuid_module = NoUuid7Yet
    /\ ids \in [1..SortLen -> {UPLID(<<"a">>, Len(BASE62_ALPHABET)).obj}
                               \cup {UPLID(<<"a", "_", "b">>, v).obj :
                                        v \in {0, Len(BASE62_ALPHABET) - 1,
                                               Len(BASE62_ALPHABET)}}]

\* ids.sort()
Sort ==
    /\ result.op # "sorted"
    /\ ids' = sorted(ids, "")
    /\ result' = Res("sorted", 0, <<>>, <<>>, -1, "none", "", 0, <<>>, -1)
    /\ UNCHANGED <<clock, closures, threads, uuid_module>>

NextCompare ==
    \/ Eq(1, 2)
    \/ Lt(1, 2)
    \/ Le(1, 2)
    \/ Gt(1, 2)
    \/ Ge(1, 2)
    \/ Sort

SpecCompare == InitCompare /\ [][NextCompare]_vars

(***************************************************************************)
(* Threads reading the encoding of shared identifiers, statement by        *)
(* statement                                                               *)
(***************************************************************************)
\* thread t skips the test of the cache and goes to the return
CacheCheck_unchecked(t, i, op) ==
    /\ threads[t].at \in {"idle", "done"}
    /\ i \in 1..Len(ids)
    /\ threads' = [threads EXCEPT ![t] = [IdleThread EXCEPT
                       !.at = "cached", !.op = op, !.ret = i]]
    /\ UNCHANGED <<ids, result, clock, closures, uuid_module>>

\* thread t enters ids[i].base62_uid (op "base62_uid") or str(ids[i]) (op
\* "str") and tests self._base62_uid is None
CacheCheck(t, i, op) ==
    /\ threads[t].at \in {"idle", "done"}
    /\ i \in 1..Len(ids)
    /\ threads' = [threads EXCEPT ![t] = [IdleThread EXCEPT
                       !.at = IF ids[i].base62_uid = None THEN "checked" ELSE "cached",
                       !.op = op, !.ret = i]]
    /\ UNCHANGED <<ids, result, clock, closures, uuid_module>>

\* thread t computes the encoding and stores it in the slot
CacheStore(t) ==
    /\ threads[t].at = "checked"
    /\ ids' = [ids EXCEPT ![threads[t].ret].base62_uid =
                   Some(int_to_base62(ids[threads[t].ret].uid))]
    /\ threads' = [threads EXCEPT ![t].at = "cached"]
    /\ UNCHANGED <<result, clock, closures, uuid_module>>

\* thread t reads the slot and returns it (str: after the prefix and "_")
CacheReturn(t) ==
    /\ threads[t].at = "cached"
    /\ LET x == ids[threads[t].ret]
           tail == IF x.base62_uid = None THEN <<>> ELSE x.base62_uid[1]
           out == IF threads[t].op = "str" THEN x.prefix \o <<"_">> \o tail ELSE tail
       IN  /\ threads' = [threads EXCEPT ![t] = [@ EXCEPT !.at = "done", !.out = out]]
           /\ result' = Res(threads[t].op, threads[t].ret, <<>>, <<>>, t, "none", "", 0,
                            out, -1)
    /\ UNCHANGED <<ids, clock, closures, uuid_module>>

NextCache ==
    \/ Construct(<<"a">>, Len(BASE62_ALPHABET) - 1)
    \/ \E s \in LiveStrings : FromString(s, <<"a">>)
    \/ \E t \in Threads, i \in 1..MaxIds, op \in {"base62_uid", "str"} : CacheCheck(t, i, op)
    \/ \E t \in Threads : CacheStore(t)
    \/ \E t \in Threads : CacheReturn(t)

SpecCache == Init /\ [][NextCache]_vars

(***************************************************************************)
(* Identifiers generated one after another by one thread: uuid7() with the *)
(* globals of the uuid module                                              *)
(***************************************************************************)
\* UPLID.generate(p); the timestamp stays below 2^TsBits
GenerateNext(p, seed, tail) ==
    /\ uuid7_counter(uuid_module, clock, seed, tail).module.last_timestamp_v7
           < Pow(2, TsBits)
    /\ Build("generate", <<>>, p, clock,
             IF validate_prefix(p).exc # "none"
             THEN Raised(validate_prefix(p))
             ELSE Returned([prefix |-> p,
                            uid |-> uuid7_counter(uuid_module, clock, seed, tail).uid,
                            base62_uid |-> None]))
    /\ uuid_module' = IF validate_prefix(p).exc # "none"
                      THEN uuid_module
                      ELSE uuid7_counter(uuid_module, clock, seed, tail).module
    /\ UNCHANGED <<clock, closures, threads>>

NextSeq ==
    \/ \E p \in {<<"a">>, <<"A">>}, seed \in 0..(Pow(2, CounterBits - 1) - 1),
          tail \in 0..(Pow(2, RandBits - CounterBits) - 1) : GenerateNext(p, seed, tail)
    \/ Tick
    \/ Del

SpecSeq == Init /\ [][NextSeq]_vars

(***************************************************************************)
(* The codec alone                                                         *)
(***************************************************************************)
\* _int_to_base62(v)
Encode(v) ==
    /\ result' = Res("int_to_base62", 0, <<>>, <<>>, v, "none", "", 0,
                     int_to_base62(v), -1)
    /\ UNCHANGED <<ids, clock, closures, threads, uuid_module>>

\* _base62_to_int(s); n: the integer s was encoded from, -1 for a free string
Decode(s, n) ==
    /\ result' = Res("base62_to_int", 0, s, <<>>, n, base62_to_int(s).exc, "", 0,
                     <<>>, base62_to_int(s).val)
    /\ UNCHANGED <<ids, clock, closures, threads, uuid_module>>

EncodeAny == result.op = "call_int_to_base62" /\ Encode(result.n)
DecodeEncoded == result.op = "int_to_base62" /\ Decode(result.out, result.n)
DecodeAny == result.op = "call_base62_to_int" /\ Decode(result.s, -1)

NextCodec == EncodeAny \/ DecodeEncoded \/ DecodeAny

SpecCodec ==
    /\ InitCalls({Call("call_int_to_base62", <<>>, <<>>, v) : v \in AllUids}
                 \cup {Call("call_base62_to_int", s, <<>>, -1) : s \in Tails})
    /\ [][NextCodec]_vars

(***************************************************************************)
(* The prefix validator alone                                              *)
(***************************************************************************)
\* _validate_prefix(p)
Validate(p) ==
    /\ result' = Res("validate_prefix", 0, <<>>, p, -1, validate_prefix(p).exc,
                     validate_prefix(p).msg, 0, <<>>, -1)
    /\ UNCHANGED <<ids, clock, closures, threads, uuid_module>>

ValidateAny == result.op = "call_validate_prefix" /\ Validate(result.p)

NextPrefix == ValidateAny

SpecPrefix ==
    /\ InitCalls({Call("call_validate_prefix", <<>>, p, -1) : p \in PrefixFuzz})
    /\ [][NextPrefix]_vars

(***************************************************************************)
(* Properties                                                              *)
(***************************************************************************)
\* the naming policy as documented: lowercase letters and underscores only,
\* a letter first and last, no two underscores in a row, 1 to 64 characters
SatisfiesNamingPolicy(s) ==
    /\ Len(s) >= 1
    /\ Len(s) <= PREFIX_MAX_LENGTH
    /\ \A i \in 1..Len(s) : s[i] \in Lower \cup {"_"}
    /\ s[1] \in Lower
    /\ s[Len(s)] \in Lower
    /\ \A i \in 1..(Len(s) - 1) : ~(s[i] = "_" /\ s[i + 1] = "_")

\* k is the position of the last underscore of s
IsLastUnderscore(s, k) ==
    /\ k \in 1..Len(s)
    /\ s[k] = "_"
    /\ \A j \in (k + 1)..Len(s) : s[j] # "_"

\* the digit a character stands for, -1 for a character outside the alphabet
DigitOf(c) ==
    IF \E i \in 1..Base : BASE62_ALPHABET[i] = c
    THEN (CHOOSE i \in 1..Base : BASE62_ALPHABET[i] = c) - 1
    ELSE -1

\* the number a digit string denotes in base 62, most significant digit first
RECURSIVE PositionalValue(_)
PositionalValue(s) ==
    IF s = <<>> THEN 0
    ELSE DigitOf(s[Len(s)]) + 62 * PositionalValue(SubSeq(s, 1, Len(s) - 1))

\* C1: formatting an identifier built from an accepted prefix and any value and
\* parsing the string with the same prefix succeeds and returns an identifier
\* with the same prefix and the same value.
C1_RoundTrip ==
    (/\ result.op = "from_string"
     /\ Len(ids) >= 1
     /\ result.s = str(ids[1]).val
     /\ result.p = ids[1].prefix)
    => (/\ result.exc = "none"
        /\ result.ret = 2
        /\ Len(ids) = 2
        /\ eq(ids[2], ids[1])
        /\ ids[2].prefix = ids[1].prefix
        /\ ids[2].uid = ids[1].uid)

C1_Witness ==
    /\ result.op = "from_string"
    /\ result.exc = "none"
    /\ Len(ids) = 2
    /\ ids[1].prefix = <<"a", "_", "b">>
    /\ ids[1].uid = UuidLimit - 1
    /\ result.s = str(ids[1]).val
    /\ ids[2].uid = UuidLimit - 1

\* C2: every value below 2^UuidBits encodes to exactly BASE62_UUID_LENGTH
\* characters of the alphabet (zero to all "0"), and decoding the encoding
\* gives the value back.
C2_CodecBijection ==
    /\ result.op = "int_to_base62" =>
          /\ Len(result.out) = BASE62_UUID_LENGTH
          /\ \A i \in 1..Len(result.out) : DigitOf(result.out[i]) >= 0
          /\ result.n = 0 => \A i \in 1..Len(result.out) : result.out[i] = "0"
    /\ (result.op = "base62_to_int" /\ result.n >= 0) =>
          /\ result.exc = "none"
          /\ result.num = result.n

C2_Witness ==
    /\ result.op = "base62_to_int"
    /\ result.n = 61
    /\ result.s = <<"0", "z">>
    /\ result.num = 61

\* C3: every live identifier has a prefix that satisfies the naming policy,
\* and a construction attempt (constructor, generate) with a prefix that
\* violates the policy raises UPLIDError and yields no identifier.
C3_PrefixInvariant ==
    /\ \A i \in 1..Len(ids) : SatisfiesNamingPolicy(ids[i].prefix)
    /\ (result.op \in {"init", "generate"} /\ ~SatisfiesNamingPolicy(result.p))
          => (result.exc = "UPLIDError" /\ result.ret = 0)

\* C4: the validator accepts a string exactly when it satisfies the naming
\* policy, and rejects every other string with UPLIDError.
C4_NamingPolicy ==
    result.op = "validate_prefix" =>
        /\ result.exc = "none" <=> SatisfiesNamingPolicy(result.p)
        /\ result.exc \in {"none", "UPLIDError"}

\* C5: an accepted prefix has between 1 and 64 characters; 64 lowercase letters
\* are accepted, the empty prefix is rejected, and a prefix of more than 64
\* characters is rejected with the "at most" error whatever its characters.
C5_PrefixLengthBounds ==
    result.op = "validate_prefix" =>
        /\ result.exc = "none" => (Len(result.p) >= 1 /\ Len(result.p) <= 64)
        /\ result.p = Rep("a", 64) => result.exc = "none"
        /\ result.p = <<>> => result.exc = "UPLIDError"
        /\ Len(result.p) > 64 => (result.exc = "UPLIDError" /\ result.msg = MsgAtMost)

C5_Witness ==
    /\ result.op = "validate_prefix"
    /\ result.p = Rep("a", 64) \o <<"A">>
    /\ result.exc = "UPLIDError"
    /\ result.msg = MsgAtMost

\* C6: from_string either returns an identifier or raises UPLIDError, on every
\* input string and expected prefix; no other exception escapes.
C6_FuzzSafety ==
    result.op = "from_string" => result.exc \in {"none", "UPLIDError"}

C6_Witness ==
    /\ result.op = "from_string"
    /\ result.s = <<"a", "_", EACUTE, NUL>>
    /\ result.p = <<"a">>
    /\ result.exc = "UPLIDError"
    /\ result.msg = MsgBase62

\* C7: from_string fails with the format error on every string that has no
\* underscore, the empty string included, whatever the expected prefix.
C7_MissingSeparator ==
    (result.op = "from_string" /\ \A i \in 1..Len(result.s) : result.s[i] # "_")
    => (/\ result.exc = "UPLIDError"
        /\ result.msg = MsgFormat
        /\ result.ret = 0)

C7_Witness ==
    /\ result.op = "from_string"
    /\ result.s = <<>>
    /\ result.p = <<"a">>
    /\ result.msg = MsgFormat

\* C8: parsing the canonical string of an identifier with an expected prefix
\* other than the identifier's fails with the "Expected prefix" error and
\* returns no identifier.
C8_PrefixMismatch ==
    (/\ result.op = "from_string"
     /\ Len(ids) >= 1
     /\ result.s = str(ids[1]).val
     /\ result.p # ids[1].prefix)
    => (/\ result.exc = "UPLIDError"
        /\ result.msg = MsgExpected
        /\ result.ret = 0
        /\ Len(ids) = 1)

C8_Witness ==
    /\ result.op = "from_string"
    /\ Len(ids) = 1
    /\ ids[1].prefix = <<"a", "_", "b">>
    /\ result.s = str(ids[1]).val
    /\ result.p = <<"a">>
    /\ result.msg = MsgExpected

\* C9: when the part before the last underscore is an accepted prefix equal to
\* the expected one and the part after it is not BASE62_UUID_LENGTH characters
\* long, from_string fails with the length error.
C9_BadLength ==
    \A k \in 1..Len(result.s) :
        (/\ result.op = "from_string"
         /\ IsLastUnderscore(result.s, k)
         /\ SubSeq(result.s, 1, k - 1) = result.p
         /\ validate_prefix(result.p).exc = "none"
         /\ Len(result.s) - k # BASE62_UUID_LENGTH)
        => (/\ result.exc = "UPLIDError"
            /\ result.msg = MsgLength
            /\ result.ret = 0)

C9_Witness ==
    /\ result.op = "from_string"
    /\ result.s = <<"a", "_">>
    /\ result.p = <<"a">>
    /\ result.msg = MsgLength

\* C10: with an accepted prefix part equal to the expected prefix and a tail of
\* exactly BASE62_UUID_LENGTH characters, from_string fails with the "Invalid
\* base62" error when the tail has a character outside the alphabet or denotes
\* a number of 2^UuidBits or more; every identifier from_string returns has a
\* value in [0, 2^UuidBits).
C10_BadEncoding ==
    /\ \A k \in 1..Len(result.s) :
        LET tl == SubSeq(result.s, k + 1, Len(result.s))
        IN  (/\ result.op = "from_string"
             /\ IsLastUnderscore(result.s, k)
             /\ SubSeq(result.s, 1, k - 1) = result.p
             /\ validate_prefix(result.p).exc = "none"
             /\ Len(tl) = BASE62_UUID_LENGTH
             /\ \/ \E i \in 1..Len(tl) : DigitOf(tl[i]) < 0
                \/ PositionalValue(tl) >= UuidLimit)
            => (/\ result.exc = "UPLIDError"
                /\ result.msg = MsgBase62
                /\ result.ret = 0)
    /\ (result.op = "from_string" /\ result.exc = "none") =>
          (/\ result.ret \in 1..Len(ids)
           /\ ids[result.ret].uid >= 0
           /\ ids[result.ret].uid < UuidLimit)

C10_Witness ==
    /\ result.op = "from_string"
    /\ result.s = <<"a", "_", "z", "z">>
    /\ result.p = <<"a">>
    /\ result.msg = MsgBase62

SameFields(a, b) == a.prefix = b.prefix /\ a.uid = b.uid

\* C11: a == b returns True exactly when the two identifiers have the same
\* prefix and the same value, whatever the state of either encoding cache; an
\* identifier parsed from the string of a live identifier is equal to it.
C11_Equality ==
    /\ result.op = "eq" =>
         (result.num = 1 <=> SameFields(ids[result.i], ids[result.n]))
    /\ (result.op = "from_string" /\ result.exc = "none") =>
         \A j \in 1..Len(ids) :
             (str(ids[j]).val = result.s /\ ids[j].prefix = result.p)
                 => eq(ids[result.ret], ids[j]) /\ eq(ids[j], ids[result.ret])

C11_Witness ==
    /\ result.op = "eq"
    /\ result.num = 1
    /\ result.i # result.n
    /\ ids[result.i].base62_uid = None
    /\ ids[result.n].base62_uid # None

\* C12: equal identifiers have equal hashes whatever their construction path
\* and cache state, the hash returned for an identifier is the one it had with
\* an empty cache, and a set built from the live identifiers holds one element
\* per distinct (prefix, value).
C12_HashConsistency ==
    /\ \A i, j \in 1..Len(ids) :
           eq(ids[i], ids[j]) => hash(ids[i]) = hash(ids[j])
    /\ result.op = "hash" =>
           result.num = hash([ids[result.i] EXCEPT !.base62_uid = None])
    /\ result.op = "set" =>
           result.num = Cardinality({<<ids[i].prefix, ids[i].uid>> : i \in 1..Len(ids)})

C12_Witness ==
    /\ result.op = "set"
    /\ result.num = 1
    /\ Len(ids) = 2
    /\ ids[1].base62_uid = None
    /\ ids[2].base62_uid # None

\* s sorts before t in the order of code points: s is a proper prefix of t, or
\* at the first position where they differ s has the smaller character
StrBefore(s, t) ==
    \E k \in 0..Len(s) :
        /\ k <= Len(t)
        /\ \A m \in 1..k : s[m] = t[m]
        /\ \/ k = Len(s) /\ k < Len(t)
           \/ k < Len(s) /\ k < Len(t) /\ ord(s[k + 1]) < ord(t[k + 1])

Before(a, b) ==
    \/ StrBefore(a.prefix, b.prefix)
    \/ a.prefix = b.prefix /\ a.uid < b.uid

\* C13: a < b returns True exactly when a's prefix sorts before b's, or the
\* prefixes are equal and a's value is numerically smaller; <=, > and >= agree
\* with it; identifiers with different prefixes are ordered by prefix alone.
C13_Ordering ==
    LET a == ids[result.i]
        b == ids[result.n]
    IN  /\ result.op = "lt" => (result.num = 1 <=> Before(a, b))
        /\ result.op = "le" => (result.num = 1 <=> (Before(a, b) \/ SameFields(a, b)))
        /\ result.op = "gt" => (result.num = 1 <=> Before(b, a))
        /\ result.op = "ge" => (result.num = 1 <=> (Before(b, a) \/ SameFields(a, b)))
        /\ (result.op = "lt" /\ StrBefore(a.prefix, b.prefix)) => result.num = 1

C13_Witness ==
    /\ result.op = "lt"
    /\ result.num = 1
    /\ ids[result.i].prefix = <<"a">>
    /\ ids[result.n].prefix = <<"a", "_", "b">>
    /\ ids[result.i].uid > ids[result.n].uid

\* the threads whose call has returned and whose identifier is live
HasReturned(t) == threads[t].at = "done" /\ threads[t].ret \in 1..Len(ids)

\* C14: of two identifiers generated with the same prefix, the one whose
\* generation read an earlier clock millisecond is less than the other.
C14_ChronologicalOrder ==
    \A t, u \in Threads :
        (/\ HasReturned(t)
         /\ HasReturned(u)
         /\ threads[t].prefix = threads[u].prefix
         /\ threads[t].ms < threads[u].ms)
        => (/\ lt(ids[threads[t].ret], ids[threads[u].ret])
            /\ ~lt(ids[threads[u].ret], ids[threads[t].ret]))

C14_Witness ==
    /\ HasReturned(1)
    /\ HasReturned(2)
    /\ threads[1].prefix = threads[2].prefix
    /\ threads[1].ms < threads[2].ms
    /\ threads[1].r > threads[2].r
    /\ lt(ids[threads[1].ret], ids[threads[2].ret])

C16_CanonicalForm ==
    result.op = "str" =>
        LET x == ids[result.i]
            n == Len(x.prefix)
            e == SubSeq(result.out, n + 2, Len(result.out))
        IN  /\ result.exc = "none"
            /\ Len(result.out) = n + 1 + BASE62_UUID_LENGTH
            /\ SubSeq(result.out, 1, n) = x.prefix
            /\ result.out[n + 1] = "_"
            /\ Len(e) = BASE62_UUID_LENGTH
            /\ \A k \in 1..Len(e) : DigitOf(e[k]) >= 0
            /\ PositionalValue(e) = x.uid

C16_Witness ==
    /\ result.op = "str"
    /\ result.i \in 1..Len(ids)
    /\ ids[result.i].prefix = <<"a", "_", "b">>
    /\ ids[result.i].uid = 0
    /\ result.out = <<"a", "_", "b", "_">> \o Rep("0", BASE62_UUID_LENGTH)

\* C17: from_string splits its input at the last underscore: it succeeds only
\* if what precedes the last underscore is the expected prefix, the identifier
\* returned then has that prefix and the text after the last underscore as its
\* encoding; if what precedes the last underscore is an accepted prefix other
\* than the expected one, it fails with the "Expected prefix" error.
C17_SplitAtLastUnderscore ==
    result.op = "from_string" =>
        \A k \in 1..Len(result.s) :
            IsLastUnderscore(result.s, k) =>
                LET candidate == SubSeq(result.s, 1, k - 1)
                    tail == SubSeq(result.s, k + 1, Len(result.s))
                IN  /\ result.exc = "none" =>
                          /\ candidate = result.p
                          /\ ids[result.ret].prefix = candidate
                          /\ ids[result.ret].base62_uid = Some(tail)
                          /\ ids[result.ret].uid = PositionalValue(tail)
                    /\ (validate_prefix(candidate).exc = "none" /\ candidate # result.p) =>
                          /\ result.exc = "UPLIDError"
                          /\ result.msg = MsgExpected
                    /\ (/\ validate_prefix(candidate).exc = "none"
                        /\ candidate = result.p
                        /\ Len(tail) = BASE62_UUID_LENGTH
                        /\ \A m \in 1..Len(tail) : DigitOf(tail[m]) >= 0
                        /\ PositionalValue(tail) < UuidLimit) =>
                          result.exc = "none"

C17_Witness ==
    /\ result.op = "from_string"
    /\ result.s = <<"a", "_", "b", "_", "0", "8">>
    /\ result.p = <<"a">>
    /\ result.exc = "UPLIDError"
    /\ result.msg = MsgExpected

\* C18: no step changes the prefix or the value of a live identifier; the
\* encoding cache of a live identifier only ever goes from empty to the
\* encoding of its value, and once populated it is neither changed nor cleared.
C18_Immutability ==
    [][\A i \in 1..Len(ids) :
           i <= Len(ids') =>
               /\ ids'[i].prefix = ids[i].prefix
               /\ ids'[i].uid = ids[i].uid
               /\ ids[i].base62_uid # None => ids'[i].base62_uid = ids[i].base62_uid
               /\ ids'[i].base62_uid \in {ids[i].base62_uid, Some(int_to_base62(ids[i].uid))}]_vars

C18_Witness ==
    /\ result.op = "process_bind_param"
    /\ result.exc = "none"
    /\ result.i = 1
    /\ Len(ids) = 2
    /\ ids[1].prefix = <<"a">>
    /\ ids[1].uid = uuid7(0, 1)
    /\ ids[1].base62_uid = Some(int_to_base62(uuid7(0, 1)))
    /\ ids[2].base62_uid = None

\* the literal p of the type UPLID[Literal[p]] a closure was made from
LiteralOf(c) == closures[c].of.args[1].args[1]

\* C19: an identifier returned by the closure of factory(UPLID[Literal[p]])
\* has prefix p; a call of the closure of parse(UPLID[Literal[p]]) on s has
\* the outcome of from_string(s, p): the same identifier or the same
\* UPLIDError; no step changes the prefix bound in an existing closure.
C19_TypeBinding ==
    [][/\ \A c \in 1..Len(closures) : c <= Len(closures') => closures'[c] = closures[c]
       /\ \A c \in 1..Len(closures') : closures'[c].prefix = closures'[c].of.args[1].args[1]
       /\ (result'.op = "_factory" /\ result'.exc = "none") =>
              ids'[result'.ret].prefix = LiteralOf(result'.n)
       /\ result'.op = "_factory" => result'.exc \in {"none", "UPLIDError"}
       /\ result'.op = "_parse" =>
              LET f == from_string(result'.s, LiteralOf(result'.n))
              IN  /\ result'.exc = f.exc
                  /\ result'.msg = f.msg
                  /\ result'.exc \in {"none", "UPLIDError"}
                  /\ result'.exc = "none" => ids'[result'.ret] = f.obj]_vars

C19_Witness ==
    /\ result.op = "_parse"
    /\ result.s = <<"a", "_", "b", "_", "0", "8">>
    /\ result.n = 2
    /\ Len(closures) = 2
    /\ closures[1].kind = "parse"
    /\ LiteralOf(1) = <<"a", "_", "b">>
    /\ LiteralOf(2) = <<"a">>
    /\ result.exc = "UPLIDError"
    /\ result.msg = MsgExpected
    /\ Len(ids) = 1
    /\ ids[1].prefix = <<"a", "_", "b">>

\* C20: the validator of UPLID[Literal[p]] returns only identifiers with
\* prefix p and raises nothing but UPLIDError: a str is parsed as by
\* from_string with p, an identifier with prefix p is returned as the same
\* object, an identifier with another prefix and a value of another type are
\* rejected; the string of a live identifier with prefix p validates to an
\* identifier equal to it.
C20_PydanticValidation ==
    result.op = "validate" =>
        /\ result.exc \in {"none", "UPLIDError"}
        /\ result.exc = "none" => ids[result.ret].prefix = result.p
        /\ result.i >= 1 =>
               IF ids[result.i].prefix = result.p
               THEN result.exc = "none" /\ result.ret = result.i
               ELSE result.exc = "UPLIDError" /\ result.ret = 0
        /\ (result.i = 0 /\ result.n = 0) => result.exc = "UPLIDError"
        /\ (result.i = 0 /\ result.n = -1) =>
               /\ result.exc = from_string(result.s, result.p).exc
               /\ result.msg = from_string(result.s, result.p).msg
               /\ result.exc = "none" =>
                      ids[result.ret] = from_string(result.s, result.p).obj
               /\ \A j \in 1..Len(ids) :
                      (j # result.ret /\ str(ids[j]).val = result.s
                          /\ ids[j].prefix = result.p)
                      => result.exc = "none" /\ eq(ids[result.ret], ids[j])

C20_Witness ==
    /\ result.op = "validate"
    /\ result.i = 0
    /\ result.n = -1
    /\ result.exc = "none"
    /\ result.ret = 2
    /\ Len(ids) = 2
    /\ result.s = str(ids[1]).val
    /\ ids[1].base62_uid = None
    /\ eq(ids[2], ids[1])


\* the tail is BASE62_UUID_LENGTH alphabet characters whose value fits the UUID
Decodable(tail) ==
    /\ \A m \in 1..Len(tail) : DigitOf(tail[m]) >= 0
    /\ PositionalValue(tail) < UuidLimit

\* C22: from_string reports the first violated rule in the order: no
\* underscore, candidate prefix longer than PREFIX_MAX_LENGTH, candidate prefix
\* against the naming policy, candidate prefix different from the expected
\* one, tail of the wrong length, tail not decodable; it succeeds only when
\* no rule is violated.
C22_ErrorPrecedence ==
    result.op = "from_string" =>
        IF \A k \in 1..Len(result.s) : result.s[k] # "_"
        THEN result.msg = MsgFormat
        ELSE LET k == CHOOSE j \in 1..Len(result.s) : IsLastUnderscore(result.s, j)
                 candidate == SubSeq(result.s, 1, k - 1)
                 tail == SubSeq(result.s, k + 1, Len(result.s))
             IN  IF Len(candidate) > PREFIX_MAX_LENGTH THEN result.msg = MsgAtMost
                 ELSE IF ~SatisfiesNamingPolicy(candidate) THEN result.msg = MsgSnakeCase
                 ELSE IF candidate # result.p THEN result.msg = MsgExpected
                 ELSE IF Len(tail) # BASE62_UUID_LENGTH THEN result.msg = MsgLength
                 ELSE IF ~Decodable(tail) THEN result.msg = MsgBase62
                 ELSE result.exc = "none"

\* C23: when from_string(s, p) succeeds the identifier returned has prefix p,
\* its encoding cache holds the text of s after the last underscore as it was
\* given, and str of the identifier is s.
C23_ParseReusesInput ==
    (result.op = "from_string" /\ result.exc = "none") =>
        LET x == ids[result.ret]
            n == Len(result.s)
        IN  /\ x.prefix = result.p
            /\ x.base62_uid # None
            /\ Len(x.base62_uid[1]) = BASE62_UUID_LENGTH
            /\ x.base62_uid[1] = SubSeq(result.s, n - BASE62_UUID_LENGTH + 1, n)
            /\ base62_uid(x).val = x.base62_uid[1]
            /\ str(x).val = result.s

C23_Witness ==
    /\ result.op = "from_string"
    /\ result.exc = "none"
    /\ result.s = <<"a", "_", "b", "_", "0", "8">>
    /\ ids[result.ret].base62_uid = <<(<<"0", "8">>)>>

\* C27: copy and deepcopy return the object they were given; unpickling a
\* pickled identifier gives an identifier equal to it, with the same prefix
\* and value and a prefix that satisfies the naming policy.
C27_CopyPickle ==
    /\ result.op = "copy" => (result.exc = "none" /\ result.ret = result.i)
    /\ result.op = "pickle" =>
           /\ result.exc = "none"
           /\ eq(ids[result.ret], ids[result.i])
           /\ ids[result.ret].prefix = ids[result.i].prefix
           /\ ids[result.ret].uid = ids[result.i].uid
           /\ SatisfiesNamingPolicy(ids[result.ret].prefix)


\* C25: timestamp returns the timestamp field of the value (the value shifted
\* right by UUIDV7_TIMESTAMP_SHIFT) divided by 1000, whatever the other bits;
\* for an identifier generated when the clock reads millisecond t it is
\* t / 1000; the identifier parsed from str(x) has the timestamp and the
\* datetime of x.
C25_TimestampExtraction ==
    /\ result.op = "timestamp" =>
           /\ result.exc = "none"
           /\ result.num.den = 1000
           /\ result.num.num * Pow(2, UUIDV7_TIMESTAMP_SHIFT) <= ids[result.i].uid
           /\ ids[result.i].uid < (result.num.num + 1) * Pow(2, UUIDV7_TIMESTAMP_SHIFT)
    /\ (result.op = "generate" /\ result.exc = "none") =>
           timestamp(ids[result.ret]) = [num |-> result.n, den |-> 1000]
    /\ (result.op = "from_string" /\ result.exc = "none" /\ result.ret = 2) =>
           /\ timestamp(ids[2]) = timestamp(ids[1])
           /\ datetime(ids[2]) = datetime(ids[1])

C25_Witness ==
    /\ result.op = "timestamp"
    /\ result.i = 2
    /\ Len(ids) = 2
    /\ ids[1].uid = Pow(2, UUIDV7_TIMESTAMP_SHIFT) + 1
    /\ ids[2].base62_uid = ids[1].base62_uid
    /\ result.num = [num |-> 1, den |-> 1000]

\* C26: timestamp and datetime return a value and raise nothing, for every
\* identifier whatever its value.
C26_AccessorsTotal ==
    result.op \in {"timestamp", "datetime"} => result.exc = "none"

\* C21: a column with prefix p binds None to None and an identifier with
\* prefix p to its canonical string, returns a string unchanged exactly when
\* UPLID.from_string(string, p) succeeds and raises otherwise, and raises for
\* an identifier with another prefix; every string it returns is accepted by
\* process_result_value, and loading a bound identifier gives an equal one.
C21_WriteTimeValidation ==
    /\ result.op = "process_bind_param" /\ result.i = 0 /\ result.n = 0 =>
           result.exc = "none" /\ result.num = 1
    /\ result.op = "process_bind_param" /\ result.i >= 1 =>
           IF ids[result.i].prefix = result.p
           THEN /\ result.exc = "none"
                /\ result.out = result.p \o <<"_">> \o int_to_base62(ids[result.i].uid)
           ELSE result.exc # "none"
    /\ result.op = "process_bind_param" /\ result.i = 0 /\ result.n = 1 =>
           IF from_string(result.s, result.p).exc = "none"
           THEN result.exc = "none" /\ result.num = 0 /\ result.out = result.s
           ELSE result.exc # "none"
    /\ result.op = "process_result_value" =>
           /\ result.exc = "none"
           /\ result.ret = Len(ids)
           /\ result.n >= 1 => eq(ids[result.ret], ids[result.n])

C21_Witness ==
    /\ result.op = "process_result_value"
    /\ result.n = 1
    /\ result.ret = 2
    /\ ids[1].prefix = <<"a", "_", "b">>
    /\ ids[1].uid = UuidLimit - 1
    /\ ids[2].base62_uid = ids[1].base62_uid

\* the lists with the elements of s in another order
Reorderings(s) ==
    {[k \in 1..Len(s) |-> s[f[k]]] :
        f \in {g \in [1..Len(s) -> 1..Len(s)] :
                  \A x, y \in 1..Len(s) : g[x] = g[y] => x = y}}

\* two lists are equal (==) element by element
ListEq(s, u) == Len(s) = Len(u) /\ \A k \in 1..Len(s) : eq(s[k], u[k])

ComparisonsConsistent ==
    \A i, j, k \in 1..Len(ids) :
        LET a == ids[i]
            b == ids[j]
            c == ids[k]
        IN  /\ Bool(lt(a, b)) + Bool(eq(a, b)) + Bool(gt(a, b)) = 1
            /\ le(a, b) <=> (lt(a, b) \/ eq(a, b))
            /\ ge(a, b) <=> le(b, a)
            /\ lt(a, b) /\ lt(b, c) => lt(a, c)

\* C24: of a < b, a == b, a > b exactly one holds; a <= b iff a < b or
\* a == b; a >= b iff b <= a; a < b and b < c give a < c; sorting a list gives
\* the same list as sorting any reordering of it.
C24_ComparisonConsistency ==
    /\ []ComparisonsConsistent
    /\ [][result'.op = "sorted" =>
            \A u \in Reorderings(ids) : ListEq(sorted(u, ""), ids')]_vars

C24_Witness ==
    /\ result.op = "sorted"
    /\ ids[1].prefix # ids[Len(ids)].prefix
    /\ \A k \in 1..(Len(ids) - 1) : lt(ids[k], ids[k + 1])

\* str(a) < str(b) in character-code order
str_lt(a, b) == str_cmp(str(a).val, str(b).val) < 0

\* C30: for identifiers a and b with the same prefix, a < b iff str(a) < str(b)
\* in character-code order; sorting identifiers of one prefix by their
\* canonical strings gives the same list as sorting the identifiers.
C30_StringOrderMatches ==
    /\ [](\A i, j \in 1..Len(ids) :
             ids[i].prefix = ids[j].prefix => (lt(ids[i], ids[j]) <=> str_lt(ids[i], ids[j])))
    /\ [][(/\ result'.op = "sorted"
            /\ \A i \in 1..Len(ids) : ids[i].prefix = ids[1].prefix)
           => ListEq(sorted(ids, "str"), ids')]_vars

C30_Witness ==
    /\ result.op = "sorted"
    /\ \A i \in 1..Len(ids) : ids[i].prefix = <<"a", "_", "b">>
    /\ ids[1].uid = 0
    /\ ids[2].uid = Len(BASE62_ALPHABET) - 1
    /\ ids[Len(ids)].uid = Len(BASE62_ALPHABET)

\* C29: the encoding cache of every identifier is empty or holds
\* _int_to_base62 of its value, whether a thread stored it or from_string
\* took it from its input; every call of base62_uid or str by a thread, in
\* any interleaving with the other threads, returns that encoding (after the
\* prefix and "_" for str), and the cache holds it once a call has returned.
C29_CacheCorrect ==
    /\ \A i \in 1..Len(ids) :
           ids[i].base62_uid \in {None, Some(int_to_base62(ids[i].uid))}
    /\ \A t \in Threads :
           threads[t].at = "done" =>
               LET x == ids[threads[t].ret]
               IN  /\ x.base62_uid = Some(int_to_base62(x.uid))
                   /\ threads[t].op = "base62_uid" =>
                          threads[t].out = int_to_base62(x.uid)
                   /\ threads[t].op = "str" =>
                          threads[t].out = x.prefix \o <<"_">> \o int_to_base62(x.uid)

\* a thread has returned the string of an identifier while another, which
\* found the cache empty before, is about to store the encoding again
C29_Witness ==
    /\ threads[1].at = "done"
    /\ threads[1].op = "str"
    /\ threads[1].out = <<"a", "_", "0", "z">>
    /\ threads[2].at = "checked"
    /\ threads[2].op = "base62_uid"
    /\ threads[2].ret = threads[1].ret

====
